---- MODULE Spec2Model ----
(***************************************************************************)
(* The notebook notebooks/1-Introduction.ipynb of medspacy as a state      *)
(* machine: one action per code cell, run in document order, over the      *)
(* notebook's namespace (nlp, context, sectionizer, nlp_sectionizer_only,  *)
(* nlp_no_pos_dep, en, f, text), the displayed value of the last cell and  *)
(* the operating system's handle on ./discharge_summary.txt.               *)
(*                                                                         *)
(* The factory medspacy.load is called by the notebook but defined         *)
(* elsewhere in medspacy; it is modelled from what the notebook documents  *)
(* and displays.  A second specification, SpecLoad, applies the factory to *)
(* every argument list within the bounds.                                  *)
(***************************************************************************)
EXTENDS Integers, Sequences, FiniteSets, TLC

VARIABLES pc, imported, nlp, context, sectionizer, nlp_sectionizer_only,
          nlp_no_pos_dep, en, f, text, out, stdout, exc, history,
          file, open_handles, open_calls, open_mode,
          arg_enable, arg_disable, arg_load_rules, loaded

nbvars == <<pc, imported, nlp, context, sectionizer, nlp_sectionizer_only,
            nlp_no_pos_dep, en, f, text, out, stdout, exc, history,
            file, open_handles, open_calls, open_mode>>

argvars == <<arg_enable, arg_disable, arg_load_rules, loaded>>

vars == <<nbvars, argvars>>

----------------------------------------------------------------------------
(* Bounds of the model *)

\* longest content of ./discharge_summary.txt that is tried
MaxFileLen == 502

\* longest enable / disable list that is tried
MaxArgLen == 3

----------------------------------------------------------------------------
(* Python values *)

\* An unbound name or an absent argument is the empty tuple, a value v is <<v>>.
None == << >>

Some(v) == <<v>>

Val(o) == o[1]

\* the mutant of Slice: one element short when s reaches the end index
SliceOneShort(s, n) == SubSeq(s, 1, IF n <= Len(s) THEN n - 1 ELSE Len(s))

\* s[:n] for n >= 0: the first n elements, or all of s when it has fewer
Slice(s, n) == SubSeq(s, 1, IF n < Len(s) THEN n ELSE Len(s))

\* text[:500]
SliceEnd == 500

\* item_data[:10], patterns[:10]
PreviewEnd == 10

ToSet(s) == {s[i] : i \in 1..Len(s)}

\* the content of a file of n characters (the character at i is i % 7)
FileOfLen(n) == [i \in 1..n |-> i % 7]

----------------------------------------------------------------------------
(* The rule data the notebook displays *)

ConTextItem(literal, category, has_pattern, rule) ==
    [literal |-> literal, category |-> category, has_pattern |-> has_pattern,
     rule |-> rule]

\* Out[5]: the first ten default ConText items; the last entry stands for the
\* items after the tenth, which the notebook does not display
DefaultContextRules ==
    << ConTextItem("absence of", "NEGATED_EXISTENCE", FALSE, "FORWARD"),
       ConTextItem("adequate to rule out", "NEGATED_EXISTENCE", TRUE, "FORWARD"),
       ConTextItem("adequate to rule the patient out", "NEGATED_EXISTENCE", TRUE, "FORWARD"),
       ConTextItem("any other", "NEGATED_EXISTENCE", FALSE, "FORWARD"),
       ConTextItem("apart from", "NEGATED_EXISTENCE", TRUE, "TERMINATE"),
       ConTextItem("are ruled out", "NEGATED_EXISTENCE", TRUE, "BACKWARD"),
       ConTextItem("as a cause for", "NEGATED_EXISTENCE", TRUE, "TERMINATE"),
       ConTextItem("as has", "NEGATED_EXISTENCE", FALSE, "TERMINATE"),
       ConTextItem("as needed", "HYPOTHETICAL", FALSE, "FORWARD"),
       ConTextItem("as well as any", "NEGATED_EXISTENCE", FALSE, "FORWARD"),
       ConTextItem("(later items)", "NEGATED_EXISTENCE", FALSE, "FORWARD") >>

SectionPattern(section_title, pattern) ==
    [section_title |-> section_title, pattern |-> pattern]

\* Out[7]: the first ten default section patterns, and one entry for the rest
DefaultSectionPatterns ==
    << SectionPattern("addendum", "ADDENDUM:"),
       SectionPattern("addendum", "Addendum:"),
       SectionPattern("allergies", "ALLERGIC REACTIONS:"),
       SectionPattern("allergies", "ALLERGIES:"),
       SectionPattern("chief_complaint", "CC:"),
       SectionPattern("chief_complaint", "CHIEF COMPLAINT:"),
       SectionPattern("chief_complaint", "Chief Complaint:"),
       SectionPattern("comments", "COMMENTS:"),
       SectionPattern("diagnoses", "ADMISSION DIAGNOSES:"),
       SectionPattern("diagnoses", "DIAGNOSES:"),
       SectionPattern("(later sections)", "(later patterns)") >>

----------------------------------------------------------------------------
(* Pipelines *)

\* A stage of a pipeline: its name, its rule list and who constructed it
Stage(name, rules, made_by) == [name |-> name, rules |-> rules, made_by |-> made_by]

\* A pipeline: its tokenizer and its ordered stages
Pipeline(tokenizer, stages) == [tokenizer |-> tokenizer, stages |-> stages]

pipe_names(p) == [i \in 1..Len(p.stages) |-> p.stages[i].name]

\* nlp.get_pipe(name): the stage of that name
get_pipe(p, name) ==
    p.stages[CHOOSE i \in 1..Len(p.stages) : p.stages[i].name = name]

has_pipe(p, name) == \E i \in 1..Len(p.stages) : p.stages[i].name = name

\* add_pipe(component, first=True): the component becomes the first stage
add_pipe_first(p, component) ==
    [p EXCEPT !.stages = <<component>> \o p.stages]

\* en.add_pipe(component): the component becomes the last stage
add_pipe(p, component) ==
    [p EXCEPT !.stages = Append(p.stages, component)]

\* the stages of en_core_web_sm (Out[15] without the added 'context')
BaseModelPipes == <<"tagger", "parser", "ner">>

\* spacy.load(model, disable=disable)
spacy_load(model, disable) ==
    LET names == SelectSeq(BaseModelPipes, LAMBDA n : n \notin disable)
    IN  Pipeline("tokenizer",
                 [i \in 1..Len(names) |-> Stage(names[i], << >>, "spacy.load")])

\* the components the notebook lists for the default pipeline
DEFAULT_PIPENAMES ==
    {"tagger", "parser", "preprocessor", "target_matcher", "context",
     "sectionizer", "postprocessor"}

\* the stages medspacy.load adds after the base model's, in pipeline order
MedspacyPipes == <<"target_matcher", "sectionizer", "context", "postprocessor">>

\* the mutant of ComponentRules: load_rules is ignored
ComponentRulesAlways(name, load_rules) ==
    IF name = "context" THEN DefaultContextRules
    ELSE IF name = "sectionizer" THEN DefaultSectionPatterns
    ELSE << >>

\* the rules a component is constructed with
ComponentRules(name, load_rules) ==
    IF ~load_rules THEN << >>
    ELSE IF name = "context" THEN DefaultContextRules
    ELSE IF name = "sectionizer" THEN DefaultSectionPatterns
    ELSE << >>

\* the mutant of build_pipe_names: an enable list disables nothing
build_pipe_names_enable_only_adds(enable, disable) ==
    IF disable # None
    THEN [enable |-> DEFAULT_PIPENAMES \ ToSet(Val(disable)),
          disable |-> ToSet(Val(disable))]
    ELSE IF enable # None
    THEN [enable |-> ToSet(Val(enable)), disable |-> {}]
    ELSE [enable |-> DEFAULT_PIPENAMES, disable |-> {}]

\* the mutant of build_pipe_names: a disable list leaves everything enabled
build_pipe_names_keep(enable, disable) ==
    IF disable # None
    THEN [enable |-> DEFAULT_PIPENAMES, disable |-> {}]
    ELSE IF enable # None
    THEN [enable |-> ToSet(Val(enable)),
          disable |-> DEFAULT_PIPENAMES \ ToSet(Val(enable))]
    ELSE [enable |-> DEFAULT_PIPENAMES, disable |-> {}]

\* the enable and disable sets that the two optional lists stand for
build_pipe_names(enable, disable) ==
    IF disable # None
    THEN [enable |-> DEFAULT_PIPENAMES \ ToSet(Val(disable)),
          disable |-> ToSet(Val(disable))]
    ELSE IF enable # None
    THEN [enable |-> ToSet(Val(enable)),
          disable |-> DEFAULT_PIPENAMES \ ToSet(Val(enable))]
    ELSE [enable |-> DEFAULT_PIPENAMES, disable |-> {}]

\* medspacy.load(model, enable, disable, load_rules)
load(model, enable, disable, load_rules) ==
    LET names == build_pipe_names(enable, disable)
        off   == IF model = "default" THEN names.disable \cup {"ner"}
                 ELSE names.disable
        base  == spacy_load(IF model = "default" THEN "en_core_web_sm" ELSE model,
                            off)
        added == SelectSeq(MedspacyPipes, LAMBDA n : n \in names.enable)
    IN  Pipeline(IF "preprocessor" \in names.enable THEN "preprocessor"
                 ELSE base.tokenizer,
                 base.stages \o
                 [i \in 1..Len(added) |->
                    Stage(added[i], ComponentRules(added[i], load_rules),
                          "medspacy.load")])

\* ConTextComponent(nlp): a new component with the default rules
ConTextComponent(p) == Stage("context", DefaultContextRules, "notebook")

----------------------------------------------------------------------------
(* What the notebook's recorded outputs show *)

Out3 == <<"tagger", "parser", "target_matcher", "sectionizer", "context",
          "postprocessor">>

Out8 == <<"sectionizer">>

Out9 == <<"target_matcher", "sectionizer", "context", "postprocessor">>

Out15 == <<"tagger", "parser", "ner", "context">>

----------------------------------------------------------------------------
(* The notebook: one action per code cell *)

\* the position of a cell (or of a step of cell 16) in the document
Order(c) ==
    CASE c = "In1" -> 1   [] c = "In2" -> 2   [] c = "In3" -> 3
      [] c = "In4" -> 4   [] c = "In5" -> 5   [] c = "In6" -> 6
      [] c = "In7" -> 7   [] c = "In8" -> 8   [] c = "In9" -> 9
      [] c = "In10" -> 10 [] c = "In11" -> 11 [] c = "In12" -> 12
      [] c = "In13" -> 13 [] c = "In14" -> 14 [] c = "In15" -> 15
      [] c = "In16_enter" -> 16 [] c = "In16_body" -> 17
      [] c = "In16_exit" -> 18  [] c = "In17" -> 19
      [] c = "done" -> 20 [] c = "error" -> 20

\* a cell has run: the next cell, the value it displays, the operations it ran
Ran(next, shown, ops) ==
    /\ pc' = next
    /\ out' = shown
    /\ history' = history \o ops

NamesUnchanged ==
    UNCHANGED <<nlp, context, sectionizer, nlp_sectionizer_only, nlp_no_pos_dep,
                en, text>>

FileUnchanged == UNCHANGED <<f, file, open_handles, open_calls, open_mode, exc>>

InitNames ==
    /\ pc = "In1"
    /\ imported = {}
    /\ nlp = None /\ context = None /\ sectionizer = None
    /\ nlp_sectionizer_only = None /\ nlp_no_pos_dep = None /\ en = None
    /\ f = None /\ text = None
    /\ out = None /\ stdout = << >> /\ exc = None /\ history = << >>
    /\ open_handles = 0 /\ open_calls = 0 /\ open_mode = None

InitArgs ==
    /\ arg_enable = None /\ arg_disable = None /\ arg_load_rules = TRUE
    /\ loaded = None

Init ==
    /\ InitNames
    /\ file \in {FileOfLen(n) : n \in 0..MaxFileLen}
    /\ InitArgs

\* import medspacy
In1 ==
    /\ pc = "In1"
    /\ imported' = imported \cup {"medspacy"}
    /\ Ran("In2", None, <<"import">>)
    /\ NamesUnchanged /\ FileUnchanged
    /\ UNCHANGED <<stdout, argvars>>

\* the mutant of In2: the base model is named in the call
In2_named_model ==
    /\ pc = "In2"
    /\ "medspacy" \in imported
    /\ nlp' = Some(load("en_core_web_sm", None, None, TRUE))
    /\ Ran("In3", None, <<"construct">>)
    /\ UNCHANGED <<context, sectionizer, nlp_sectionizer_only, nlp_no_pos_dep,
                   en, text, imported, stdout, argvars>>
    /\ FileUnchanged

\* the mutant of In2: the call of cell 9
In2_no_pos_dep ==
    /\ pc = "In2"
    /\ "medspacy" \in imported
    /\ nlp' = Some(load("default", None, Some(<<"tagger", "parser">>), TRUE))
    /\ Ran("In3", None, <<"construct">>)
    /\ UNCHANGED <<context, sectionizer, nlp_sectionizer_only, nlp_no_pos_dep,
                   en, text, imported, stdout, argvars>>
    /\ FileUnchanged

\* nlp = medspacy.load()
In2 ==
    /\ pc = "In2"
    /\ "medspacy" \in imported
    /\ nlp' = Some(load("default", None, None, TRUE))
    /\ Ran("In3", None, <<"construct">>)
    /\ UNCHANGED <<context, sectionizer, nlp_sectionizer_only, nlp_no_pos_dep,
                   en, text, imported, stdout, argvars>>
    /\ FileUnchanged

\* nlp.pipe_names
In3 ==
    /\ pc = "In3"
    /\ nlp # None
    /\ Ran("In4", Some(pipe_names(Val(nlp))), <<"introspect">>)
    /\ NamesUnchanged /\ FileUnchanged
    /\ UNCHANGED <<imported, stdout, argvars>>

\* context = nlp.get_pipe("context")
In4 ==
    /\ pc = "In4"
    /\ nlp # None /\ has_pipe(Val(nlp), "context")
    /\ context' = Some(get_pipe(Val(nlp), "context"))
    /\ Ran("In5", None, <<"introspect">>)
    /\ UNCHANGED <<nlp, sectionizer, nlp_sectionizer_only, nlp_no_pos_dep,
                   en, text, imported, stdout, argvars>>
    /\ FileUnchanged

\* context.item_data[:10]
In5 ==
    /\ pc = "In5"
    /\ context # None
    /\ Ran("In6", Some(Slice(Val(context).rules, PreviewEnd)), <<"introspect">>)
    /\ NamesUnchanged /\ FileUnchanged
    /\ UNCHANGED <<imported, stdout, argvars>>

\* sectionizer = nlp.get_pipe("sectionizer")
In6 ==
    /\ pc = "In6"
    /\ nlp # None /\ has_pipe(Val(nlp), "sectionizer")
    /\ sectionizer' = Some(get_pipe(Val(nlp), "sectionizer"))
    /\ Ran("In7", None, <<"introspect">>)
    /\ UNCHANGED <<nlp, context, nlp_sectionizer_only, nlp_no_pos_dep,
                   en, text, imported, stdout, argvars>>
    /\ FileUnchanged

\* sectionizer.patterns[:10]
In7 ==
    /\ pc = "In7"
    /\ sectionizer # None
    /\ Ran("In8", Some(Slice(Val(sectionizer).rules, PreviewEnd)), <<"introspect">>)
    /\ NamesUnchanged /\ FileUnchanged
    /\ UNCHANGED <<imported, stdout, argvars>>

\* nlp_sectionizer_only = medspacy.load(enable=["sectionizer"])
\* nlp_sectionizer_only.pipe_names
In8 ==
    /\ pc = "In8"
    /\ "medspacy" \in imported
    /\ nlp_sectionizer_only' = Some(load("default", Some(<<"sectionizer">>), None, TRUE))
    /\ Ran("In9", Some(pipe_names(Val(nlp_sectionizer_only'))),
           <<"construct", "introspect">>)
    /\ UNCHANGED <<nlp, context, sectionizer, nlp_no_pos_dep,
                   en, text, imported, stdout, argvars>>
    /\ FileUnchanged

\* nlp_no_pos_dep = medspacy.load(disable=["tagger", "parser"])
\* nlp_no_pos_dep.pipe_names
\* (the empty cell that follows has no source and runs nothing)
In9 ==
    /\ pc = "In9"
    /\ "medspacy" \in imported
    /\ nlp_no_pos_dep' = Some(load("default", None, Some(<<"tagger", "parser">>), TRUE))
    /\ Ran("In10", Some(pipe_names(Val(nlp_no_pos_dep'))),
           <<"construct", "introspect">>)
    /\ UNCHANGED <<nlp, context, sectionizer, nlp_sectionizer_only,
                   en, text, imported, stdout, argvars>>
    /\ FileUnchanged

\* import spacy
In10 ==
    /\ pc = "In10"
    /\ imported' = imported \cup {"spacy"}
    /\ Ran("In11", None, <<"import">>)
    /\ NamesUnchanged /\ FileUnchanged
    /\ UNCHANGED <<stdout, argvars>>

\* en = spacy.load("en_core_web_sm")
In11 ==
    /\ pc = "In11"
    /\ "spacy" \in imported
    /\ en' = Some(spacy_load("en_core_web_sm", {}))
    /\ Ran("In12", None, <<"construct">>)
    /\ UNCHANGED <<nlp, context, sectionizer, nlp_sectionizer_only,
                   nlp_no_pos_dep, text, imported, stdout, argvars>>
    /\ FileUnchanged

\* from medspacy.context import ConTextComponent
In12 ==
    /\ pc = "In12"
    /\ imported' = imported \cup {"ConTextComponent"}
    /\ Ran("In13", None, <<"import">>)
    /\ NamesUnchanged /\ FileUnchanged
    /\ UNCHANGED <<stdout, argvars>>

\* context = ConTextComponent(nlp)
In13 ==
    /\ pc = "In13"
    /\ "ConTextComponent" \in imported /\ nlp # None
    /\ context' = Some(ConTextComponent(Val(nlp)))
    /\ Ran("In14", None, <<"construct_stage">>)
    /\ UNCHANGED <<nlp, sectionizer, nlp_sectionizer_only, nlp_no_pos_dep,
                   en, text, imported, stdout, argvars>>
    /\ FileUnchanged

\* the mutant of In14: en.add_pipe(context, first=True)
In14_first ==
    /\ pc = "In14"
    /\ en # None /\ context # None
    /\ en' = Some(add_pipe_first(Val(en), Val(context)))
    /\ Ran("In15", None, <<"add_pipe">>)
    /\ UNCHANGED <<nlp, context, sectionizer, nlp_sectionizer_only, nlp_no_pos_dep,
                   text, imported, stdout, argvars>>
    /\ FileUnchanged

\* the mutant of In14: the component is added to nlp
In14_wrong_pipeline ==
    /\ pc = "In14"
    /\ en # None /\ context # None
    /\ nlp' = Some(add_pipe(Val(nlp), Val(context)))
    /\ Ran("In15", None, <<"add_pipe">>)
    /\ UNCHANGED <<en, context, sectionizer, nlp_sectionizer_only, nlp_no_pos_dep,
                   text, imported, stdout, argvars>>
    /\ FileUnchanged

\* en.add_pipe(context)
In14 ==
    /\ pc = "In14"
    /\ en # None /\ context # None
    /\ en' = Some(add_pipe(Val(en), Val(context)))
    /\ Ran("In15", None, <<"add_pipe">>)
    /\ UNCHANGED <<nlp, context, sectionizer, nlp_sectionizer_only, nlp_no_pos_dep,
                   text, imported, stdout, argvars>>
    /\ FileUnchanged

\* en.pipe_names
In15 ==
    /\ pc = "In15"
    /\ en # None
    /\ Ran("In16_enter", Some(pipe_names(Val(en))), <<"introspect">>)
    /\ NamesUnchanged /\ FileUnchanged
    /\ UNCHANGED <<imported, stdout, argvars>>

\* with open("./discharge_summary.txt") as f:   the file is opened for reading,
\* or open raises and the block is not entered
In16_enter ==
    /\ pc = "In16_enter"
    /\ \/ /\ f' = Some("open")
          /\ open_handles' = open_handles + 1
          /\ open_calls' = open_calls + 1
          /\ open_mode' = Some("r")
          /\ exc' = exc
          /\ Ran("In16_body", None, <<"file_read">>)
       \/ /\ exc' = Some("FileNotFoundError")
          /\ UNCHANGED <<f, open_handles, open_calls, open_mode>>
          /\ Ran("error", None, <<"file_read">>)
    /\ NamesUnchanged
    /\ UNCHANGED <<file, imported, stdout, argvars>>

\*     text = f.read()   the whole content is read, or read raises
In16_body ==
    /\ pc = "In16_body"
    /\ f = Some("open")
    /\ \/ /\ text' = Some(file)
          /\ exc' = exc
       \/ /\ exc' = Some("OSError")
          /\ text' = text
    /\ Ran("In16_exit", None, << >>)
    /\ UNCHANGED <<nlp, context, sectionizer, nlp_sectionizer_only, nlp_no_pos_dep,
                   en, f, file, open_handles, open_calls, open_mode,
                   imported, stdout, argvars>>

\* the mutant of In16_exit: f.close() after the read instead of a with block,
\* so that a read that raises skips it
In16_exit_close_after_read ==
    /\ pc = "In16_exit"
    /\ IF exc = None
       THEN /\ f' = Some("closed")
            /\ open_handles' = open_handles - 1
            /\ Ran("In17", None, << >>)
       ELSE /\ UNCHANGED <<f, open_handles>>
            /\ Ran("error", None, << >>)
    /\ NamesUnchanged
    /\ UNCHANGED <<file, open_calls, open_mode, exc, imported, stdout, argvars>>

\* the end of the with block: f is closed, then a pending exception propagates
In16_exit ==
    /\ pc = "In16_exit"
    /\ f' = Some("closed")
    /\ open_handles' = open_handles - 1
    /\ Ran(IF exc = None THEN "In17" ELSE "error", None, << >>)
    /\ NamesUnchanged
    /\ UNCHANGED <<file, open_calls, open_mode, exc, imported, stdout, argvars>>

\* the mutant of In17: the cell displays nlp.pipe_names after the print
In17_then_pipe_names ==
    /\ pc = "In17"
    /\ text # None
    /\ stdout' = Append(stdout, Slice(Val(text), SliceEnd))
    /\ Ran("done", Some(pipe_names(Val(nlp))), <<"print_slice", "introspect">>)
    /\ NamesUnchanged /\ FileUnchanged
    /\ UNCHANGED <<imported, argvars>>

\* print(text[:500])
In17 ==
    /\ pc = "In17"
    /\ text # None
    /\ stdout' = Append(stdout, Slice(Val(text), SliceEnd))
    /\ Ran("done", None, <<"print_slice">>)
    /\ NamesUnchanged /\ FileUnchanged
    /\ UNCHANGED <<imported, argvars>>

Next ==
    \/ In1 \/ In2 \/ In3 \/ In4 \/ In5 \/ In6 \/ In7 \/ In8 \/ In9
    \/ In10 \/ In11 \/ In12 \/ In13 \/ In14 \/ In15
    \/ In16_enter \/ In16_body \/ In16_exit \/ In17

Spec == Init /\ [][Next]_vars

----------------------------------------------------------------------------
(* The factory on its own: medspacy.load over every argument list in the bounds *)

\* the names a list may hold: the listed components and the base model's 'ner'
ArgNames == DEFAULT_PIPENAMES \cup {"ner"}

ArgLists == UNION {[1..k -> ArgNames] : k \in 0..MaxArgLen}

\* enable, disable and load_rules as a caller gives them: at most one list
InitLoad ==
    /\ InitNames
    /\ file = << >>
    /\ \/ arg_enable = None /\ arg_disable = None
       \/ arg_enable \in {Some(l) : l \in ArgLists} /\ arg_disable = None
       \/ arg_enable = None /\ arg_disable \in {Some(l) : l \in ArgLists}
    /\ arg_load_rules \in BOOLEAN
    /\ loaded = None

\* medspacy.load(enable=arg_enable, disable=arg_disable, load_rules=arg_load_rules)
CallLoad ==
    /\ loaded = None
    /\ loaded' = Some(load("default", arg_enable, arg_disable, arg_load_rules))
    /\ UNCHANGED <<nbvars, arg_enable, arg_disable, arg_load_rules>>

NextLoad == CallLoad

SpecLoad == InitLoad /\ [][NextLoad]_vars

----------------------------------------------------------------------------
(* Properties *)

Range(s) == {s[i] : i \in 1..Len(s)}

Min(a, b) == IF a < b THEN a ELSE b

\* C1: after nlp = medspacy.load(), nlp.pipe_names is exactly tagger, parser,
\* target_matcher, sectionizer, context, postprocessor, in that order and with
\* no 'ner'; cell 3 displays exactly that list.
C1_DefaultPipeNames ==
    /\ nlp # None =>
         /\ pipe_names(Val(nlp)) = Out3
         /\ "ner" \notin Range(pipe_names(Val(nlp)))
    /\ pc = "In4" => out = Some(Out3)

\* cell 3 has displayed the stage names of the default pipeline
C1_Witness == pc = "In4" /\ nlp # None /\ out # None

C4_DisableRemovesD ==
    (loaded # None /\ arg_disable # None) =>
      /\ pipe_names(Val(loaded)) =
           SelectSeq(Out3, LAMBDA n : n \notin ToSet(Val(arg_disable)))
      /\ \A n \in Range(Out3) \ ToSet(Val(arg_disable)) : has_pipe(Val(loaded), n)
      /\ \A n \in ToSet(Val(arg_disable)) : ~has_pipe(Val(loaded), n)
      /\ arg_disable = Some(<<"tagger", "parser">>) => pipe_names(Val(loaded)) = Out9

\* the call of cell 9 has returned
C4_Witness ==
    /\ loaded # None
    /\ arg_disable = Some(<<"tagger", "parser">>)
    /\ Len(Val(loaded).stages) = 4

\* the rule list of the stage called name
RulesOf(p, name) == get_pipe(p, name).rules

Phase(op) ==
    CASE op = "import" -> 1
      [] op \in {"construct", "construct_stage", "add_pipe"} -> 2
      [] op = "introspect" -> 3
      [] op = "file_read" -> 4
      [] op = "print_slice" -> 5

\* C6 as claimed: the operations run fall into the phases import, pipeline
\* construction, introspection, file read, slice print, in this order: no
\* operation of an earlier phase runs after one of a later phase.
C6_FivePhasesInOrder ==
    \A i, j \in 1..Len(history) :
       i < j => Phase(history[i]) <= Phase(history[j])

\* the operations of the code cells in document order
DocumentOps ==
    <<"import", "construct", "introspect", "introspect", "introspect",
      "introspect", "introspect", "construct", "introspect", "construct",
      "introspect", "import", "construct", "import", "construct_stage",
      "add_pipe", "introspect", "file_read", "print_slice">>

\* imports, constructions and inspections together, then the read, then the print
CoarsePhase(op) ==
    IF Phase(op) <= 3 THEN 3 ELSE Phase(op)

\* C6 as amended: the operations run one at a time in document order; imports,
\* pipeline constructions and inspections are interleaved, but all of them come
\* before the file read, which comes before the slice print: once the file read
\* has run, no import, construction or inspection runs again.
C6_DocumentOrder ==
    /\ Len(history) <= Len(DocumentOps)
    /\ history = SubSeq(DocumentOps, 1, Len(history))
    /\ \A i, j \in 1..Len(history) :
          i < j => CoarsePhase(history[i]) <= CoarsePhase(history[j])

\* the whole notebook has run
C6_Witness == pc = "done" /\ Len(history) = Len(DocumentOps)

\* the stages of an optional pipeline were made by the library
LibraryMade(p) ==
    p # None => \A i \in 1..Len(Val(p).stages) : Val(p).stages[i].made_by # "notebook"

\* C7 as claimed: once a pipeline exists no step changes its stage sequence,
\* and no stage object is constructed by the notebook.
C7_NothingCreatedOrMutated ==
    [][ /\ nlp # None => nlp' = nlp
        /\ nlp_sectionizer_only # None => nlp_sectionizer_only' = nlp_sectionizer_only
        /\ nlp_no_pos_dep # None => nlp_no_pos_dep' = nlp_no_pos_dep
        /\ en # None => en' = en
        /\ context' # None => Val(context').made_by # "notebook"
        /\ LibraryMade(en') ]_vars

\* C7 as amended: the pipelines returned by medspacy.load (nlp,
\* nlp_sectionizer_only, nlp_no_pos_dep), with their rule items and section
\* patterns, are the same in every later state.  The notebook does construct
\* one stage object itself (ConTextComponent(nlp), cell 13) and mutates the
\* pipeline en of spacy.load once (en.add_pipe(context), cell 14), which
\* appends that stage and removes or changes no other.
C7_LoadedPipelinesFrozen ==
    [][ /\ nlp # None => nlp' = nlp
        /\ nlp_sectionizer_only # None => nlp_sectionizer_only' = nlp_sectionizer_only
        /\ nlp_no_pos_dep # None => nlp_no_pos_dep' = nlp_no_pos_dep
        /\ LibraryMade(nlp') /\ LibraryMade(nlp_sectionizer_only')
        /\ LibraryMade(nlp_no_pos_dep')
        /\ (en # None /\ en' # en) =>
              /\ pc = "In14"
              /\ Val(context).made_by = "notebook"
              /\ Val(en').stages = Append(Val(en).stages, Val(context))
              /\ Val(en').tokenizer = Val(en).tokenizer
        /\ (context' # None /\ Val(context').made_by = "notebook") =>
              pc \notin {"In1", "In2", "In3", "In4", "In5", "In6", "In7", "In8",
                         "In9", "In10", "In11", "In12"} ]_vars

\* en holds the stage that the notebook constructed, nlp is still as loaded
C7_Witness ==
    /\ pc = "In15" /\ en # None /\ nlp # None
    /\ ~LibraryMade(en) /\ LibraryMade(nlp)

\* C8: ./discharge_summary.txt is opened once, for reading; the handle is
\* closed when the with block is left, whether the read succeeded or raised,
\* so no handle is open in any state after the block, and never more than one.
C8_ScopedRead ==
    /\ open_handles \in {0, 1}
    /\ open_calls <= 1
    /\ open_mode # None => open_mode = Some("r")
    /\ open_handles = 1 <=> pc \in {"In16_body", "In16_exit"}
    /\ Order(pc) < Order("In16_enter") => open_calls = 0 /\ f = None
    /\ pc \in {"In17", "done"} => open_calls = 1 /\ f = Some("closed")
    /\ (pc = "error" /\ open_calls = 1) => f = Some("closed")

\* the read raised and the block has been left
C8_Witness ==
    /\ pc = "error" /\ exc = Some("OSError")
    /\ open_calls = 1 /\ open_handles = 0

\* C9: en.add_pipe(context) appends the component as the last stage and leaves
\* the stages present unchanged and in order: pipe_names goes from tagger,
\* parser, ner to tagger, parser, ner, context; nlp, which was passed to the
\* ConTextComponent constructor, keeps its pipe_names.
C9_AddPipeAppends ==
    [][ pc = "In14" =>
          /\ pipe_names(Val(en)) = <<"tagger", "parser", "ner">>
          /\ Len(Val(en').stages) = Len(Val(en).stages) + 1
          /\ SubSeq(Val(en').stages, 1, Len(Val(en).stages)) = Val(en).stages
          /\ Val(en').stages[Len(Val(en').stages)] = Val(context)
          /\ pipe_names(Val(en')) = Out15
          /\ pipe_names(Val(nlp')) = pipe_names(Val(nlp))
          /\ pipe_names(Val(nlp')) = Out3 ]_vars

\* cell 15 has displayed the stage names of en after the add_pipe
C9_Witness == pc = "In16_enter" /\ out = Some(Out15)

\* C10: what print(text[:500]) prints is the prefix of the content read, of
\* length min(500, len(text)): at most 500 characters, the whole text when it
\* has at most 500; text still holds the full content afterwards.
C10_SlicePrefix ==
    pc = "done" =>
      LET printed == stdout[Len(stdout)]
          full    == Val(text)
      IN  /\ Len(stdout) = 1
          /\ full = file
          /\ Len(printed) = Min(500, Len(full))
          /\ Len(printed) <= 500
          /\ \A i \in 1..Len(printed) : printed[i] = full[i]
          /\ Len(full) <= 500 => printed = full

\* a text of more than 500 characters has been printed
C10_Witness == pc = "done" /\ Len(Val(text)) > 500 /\ Len(stdout) = 1

====
